---- MODULE Spec2Model ----
(***************************************************************************)
(* github-stats-transparent: the statistics aggregator (gst.stats.Stats),  *)
(* the API client (gst.queries.Queries) and the two badge generators       *)
(* started together by gst.generate_images.main, as a state machine under  *)
(* the cooperative scheduler of asyncio: a flow runs from one await that   *)
(* suspends to the next, and nothing else runs in between.                 *)
(***************************************************************************)
EXTENDS Integers, Sequences, FiniteSets, TLC

VARIABLES
    cfg,      \* construction arguments and the data the GitHub server holds
    s,        \* the fields of the one Stats instance
    tasks,    \* the tasks of the event loop: where the coroutines of each
              \* flow are, then per flow its coroutine frames, innermost first
    wait,     \* per flow: what it is suspended on
    running,  \* the flow that holds the event loop, 0 when the loop is idle
    sem,      \* Queries.semaphore: free slots
    h         \* history: what was started, sent and observed

vars == <<cfg, s, tasks, wait, running, sem, h>>

\* per flow: its coroutine frames, innermost first
stack == tasks[2]

(***************************************************************************)
(* Bounds of the model.                                                    *)
(***************************************************************************)
MaxOwned == 2        \* length of the owned collection
MaxContrib == 2      \* length of the contributed-to collection
MaxPages == 4        \* length of a collection in the runs about pagination
PageSize == 1        \* nodes per page (the queries ask for first: 100)
MaxFaults == 2       \* faults of the transports during one call of the client
MaxBusy == 1         \* 202 answers to one call before the REST data is ready
MaxBusyRest == 61    \* the same, in the runs about the retries of query_rest
MaxSlots == 1        \* max_connections in the runs about the semaphore

(***************************************************************************)
(* Python values.                                                          *)
(***************************************************************************)
None == "None"
EmptyDict == <<>>

\* JSON null where a mapping is expected
JsonNull == [null |-> TRUE]
IsNull(x) == DOMAIN x = {"null"}

\* dict.get(key, default)
Get(d, k, default) == IF k \in DOMAIN d THEN d[k] ELSE default

\* d[k] = v
Put(d, k, v) == [x \in DOMAIN d \cup {k} |-> IF x = k THEN v ELSE d[x]]

Min(a, b) == IF a < b THEN a ELSE b

RECURSIVE SetToSeq(_)
SetToSeq(S) ==
    IF S = {} THEN <<>>
    ELSE LET x == CHOOSE y \in S : TRUE IN <<x>> \o SetToSeq(S \ {x})

RECURSIVE SumSeq(_)
SumSeq(q) == IF q = <<>> THEN 0 ELSE Head(q) + SumSeq(Tail(q))

(***************************************************************************)
(* The data of the GitHub server.                                          *)
(***************************************************************************)
Flows == {1, 2}
Repos == {"u/a", "o/b"}
Username == "u"

Stars(r) == IF r = "u/a" THEN 1 ELSE 2
ForkCount(r) == IF r = "u/a" THEN 4 ELSE 8

LangEdges(r) ==
    IF r = "u/a"
    THEN << [size |-> 3, node |-> [name |-> "Python", color |-> "#3572A5"]] >>
    ELSE << [size |-> 1, node |-> [name |-> "Python", color |-> "#3572A5"]],
            [size |-> 2, node |-> [name |-> "C", color |-> "#555555"]] >>

\* the languages the server knows
Langs == {"Python", "C"}

\* one repository node of an overview page
Node(r) ==
    [ nameWithOwner |-> r,
      stargazers |-> [totalCount |-> Stars(r)],
      forkCount |-> ForkCount(r),
      languages |-> [edges |-> LangEdges(r)] ]

\* A connection of the GraphQL API: the page that follows cursor `after` (the
\* cursor of a node is its position), hasNextPage, and endCursor, which is
\* null for a page without nodes.
Cursor(k) == ToString(k)

Positions == 1..(MaxOwned + MaxContrib + MaxPages)

Position(after) ==
    IF after = None THEN 0 ELSE CHOOSE k \in Positions : Cursor(k) = after

Connection(list, after) ==
    LET start == Position(after)
        stop == Min(start + PageSize, Len(list))
    IN [ pageInfo |-> [ hasNextPage |-> stop < Len(list),
                        endCursor |-> IF stop > start THEN Cursor(stop) ELSE None ],
         nodes |-> [i \in 1..(IF stop > start THEN stop - start ELSE 0)
                        |-> Node(list[start + i])] ]

ContribYears == <<"2023", "2024">>
ContribsIn(y) == IF y = "2023" THEN 5 ELSE 7

\* a JSON array, and a JSON value that is no mapping
JList(seq) == [list |-> seq]
IsList(x) == DOMAIN x = {"list"}
Scalar(v) == [scalar |-> v]
IsDict(x) == DOMAIN x # {"list"} /\ DOMAIN x # {"scalar"}

\* /repos/{repo}/stats/contributors
Contributors(r) ==
    JList(<< Scalar("stats"),
             [ author |-> [login |-> Username],
               weeks |-> << [a |-> 3, d |-> 1], [a |-> 2, d |-> 0] >> ],
             [ author |-> Scalar(None), weeks |-> << [a |-> 20, d |-> 20] >> ],
             [ author |-> [login |-> "other"], weeks |-> << [a |-> 50, d |-> 50] >> ] >>)

\* /repos/{repo}/traffic/views
Traffic(r) == [count |-> 9, views |-> << [count |-> 4], [count |-> 5] >>]

(***************************************************************************)
(* The query builder (Queries.repos_overview .. all_contribs): the text of *)
(* a query, kept as the fields the server reads back from it.              *)
(***************************************************************************)
AfterArg(cursor) == IF cursor = None THEN "null" ELSE "\"" \o cursor \o "\""

repos_overview(contrib_cursor, owned_cursor) ==
    [ kind |-> "repos_overview",
      owned_after |-> AfterArg(owned_cursor),
      contrib_after |-> AfterArg(contrib_cursor) ]

contrib_years == [kind |-> "contrib_years"]

contribs_by_year(year) == "year" \o year

all_contribs(years) ==
    [ kind |-> "all_contribs",
      aliases |-> [i \in 1..Len(years) |-> contribs_by_year(years[i])],
      years |-> years ]

\* the server reading an after: argument
ParseAfter(arg) ==
    CHOOSE c \in {None} \cup {Cursor(k) : k \in Positions} : AfterArg(c) = arg

\* a JSON object from which the server leaves the keys of `keys` out
Without(rec, keys) ==
    IF keys = {} THEN rec ELSE [k \in DOMAIN rec \ keys |-> rec[k]]

WithoutIn(seq, keys) ==
    IF keys = {} THEN seq ELSE [i \in 1..Len(seq) |-> Without(seq[i], keys)]

NodeWithout(node, keys) ==
    IF keys = {} THEN node ELSE
    Without(IF "edges" \in DOMAIN Get(node, "languages", EmptyDict)
            THEN [node EXCEPT !.languages =
                     Without([@ EXCEPT !.edges = WithoutIn(@, keys)], keys)]
            ELSE node, keys)

ConnectionWithout(conn, keys) ==
    IF keys = {} THEN conn ELSE
    Without([conn EXCEPT !.nodes = [i \in 1..Len(@) |-> NodeWithout(@[i], keys)]], keys)

\* the server's JSON answer to a GraphQL document
GraphqlAnswer(c, q) ==
    CASE q.kind = "repos_overview" ->
           Without(
             [data |-> Without([viewer |-> Without(
               [ login |-> Username,
                 name |-> c.viewer_name,
                 repositories |->
                     ConnectionWithout(Connection(c.owned, ParseAfter(q.owned_after)),
                                       c.absent),
                 repositoriesContributedTo |->
                     ConnectionWithout(Connection(c.contrib, ParseAfter(q.contrib_after)),
                                       c.absent) ], c.absent)], c.absent)], c.absent)
      [] q.kind = "contrib_years" ->
           [data |-> [viewer |->
               [contributionsCollection |-> [contributionYears |-> ContribYears]]]]
      [] OTHER ->
           [data |-> [viewer |->
               [a \in {q.aliases[i] : i \in 1..Len(q.aliases)} |->
                   LET i == CHOOSE j \in 1..Len(q.aliases) : q.aliases[j] = a
                   IN [contributionCalendar |->
                          [totalContributions |-> ContribsIn(q.years[i])]]]]]

\* the server's JSON body for a REST path, once the data is ready
RestBody(path) ==
    IF path.what = "stats/contributors" THEN Contributors(path.repo)
    ELSE Traffic(path.repo)

(***************************************************************************)
(* Stats.get_stats: what one overview page does to the accumulators.       *)
(***************************************************************************)
Viewer(raw) == Get(Get(raw, "data", EmptyDict), "viewer", EmptyDict)

ViewerNameOnly(raw) == Get(Viewer(raw), "name", None)

\* stats.py 91-98: name, else login, else the literal
ViewerName(raw) ==
    LET n == Get(Viewer(raw), "name", None)
    IN IF n # None THEN n ELSE Get(Viewer(raw), "login", "No Name")

ContribRepos(raw) == Get(Viewer(raw), "repositoriesContributedTo", EmptyDict)
OwnedRepos(raw) == Get(Viewer(raw), "repositories", EmptyDict)

AddLangUnfiltered(languages, exclude_langs, lang) ==
    LET name == Get(Get(lang, "node", EmptyDict), "name", "Other")
    IN IF name \in DOMAIN languages
       THEN Put(languages, name,
                [languages[name] EXCEPT !.size = @ + Get(lang, "size", 0),
                                        !.occurrences = @ + 1])
       ELSE Put(languages, name,
                [ size |-> Get(lang, "size", 0),
                  occurrences |-> 1,
                  color |-> Get(Get(lang, "node", EmptyDict), "color", None) ])

\* stats.py 128-141: one language edge of a repository
AddLang(languages, exclude_langs, lang) ==
    LET name == Get(Get(lang, "node", EmptyDict), "name", "Other")
    IN IF name \in exclude_langs THEN languages
       ELSE IF name \in DOMAIN languages
       THEN Put(languages, name,
                [languages[name] EXCEPT !.size = @ + Get(lang, "size", 0),
                                        !.occurrences = @ + 1])
       ELSE Put(languages, name,
                [ size |-> Get(lang, "size", 0),
                  occurrences |-> 1,
                  color |-> Get(Get(lang, "node", EmptyDict), "color", None) ])

RECURSIVE AddLangs(_, _, _)
AddLangs(languages, exclude_langs, edges) ==
    IF edges = <<>> THEN languages
    ELSE AddLangs(AddLang(languages, exclude_langs, Head(edges)), exclude_langs,
                  Tail(edges))

\* repo.get("stargazers").get(...) on a node without the key: None has no get
NodeRaises(repo) == "stargazers" \notin DOMAIN repo

\* stats.py 124-141: a repository that is recorded; when line 125 raises,
\* its name was added by line 124 and nothing else
AddRepo(st, c, repo) ==
    IF NodeRaises(repo)
    THEN [st EXCEPT !.repos = @ \cup {Get(repo, "nameWithOwner", None)}]
    ELSE [st EXCEPT
        !.repos = @ \cup {Get(repo, "nameWithOwner", None)},
        !.stargazers = @ + Get(repo.stargazers, "totalCount", 0),
        !.forks = @ + Get(repo, "forkCount", 0),
        !.languages = AddLangs(@, c.exclude_langs,
                               Get(Get(repo, "languages", EmptyDict), "edges", <<>>))]

SkippedWhenSeen(st, c, repo) == Get(repo, "nameWithOwner", None) \in st.repos

SkippedWhenExcluded(st, c, repo) ==
    Get(repo, "nameWithOwner", None) \in c.exclude_repos

\* stats.py 122-123: the repositories the loop skips
Skipped(st, c, repo) ==
    LET name == Get(repo, "nameWithOwner", None)
    IN name \in st.repos \/ name \in c.exclude_repos

\* stats.py 120-141
RECURSIVE MergeRepos(_, _, _)
MergeRepos(st, c, repos) ==
    IF repos = <<>> THEN st
    ELSE IF Skipped(st, c, Head(repos)) THEN MergeRepos(st, c, Tail(repos))
    ELSE IF NodeRaises(Head(repos)) THEN AddRepo(st, c, Head(repos))
    ELSE MergeRepos(AddRepo(st, c, Head(repos)), c, Tail(repos))

\* whether the loop of stats.py 120-141 raises: a repository that is not
\* skipped has no stargazers
RECURSIVE MergeRaises(_, _, _)
MergeRaises(st, c, repos) ==
    IF repos = <<>> THEN FALSE
    ELSE IF Skipped(st, c, Head(repos)) THEN MergeRaises(st, c, Tail(repos))
    ELSE IF NodeRaises(Head(repos)) THEN TRUE
    ELSE MergeRaises(AddRepo(st, c, Head(repos)), c, Tail(repos))

\* stats.py 114-118: the contributed-to repositories that are set aside
Ignore(ignored_repos, c, nodes) ==
    ignored_repos \cup
        { Get(nodes[i], "nameWithOwner", None) : i \in
            { j \in 1..Len(nodes) :
                Get(nodes[j], "nameWithOwner", None) \notin c.exclude_repos } }

\* stats.py 110-112: the repositories of a page that are accumulated
PageRepos(c, raw) ==
    IF c.consider_forked_repos
    THEN Get(OwnedRepos(raw), "nodes", <<>>) \o Get(ContribRepos(raw), "nodes", <<>>)
    ELSE Get(OwnedRepos(raw), "nodes", <<>>)

\* stats.py 88-141: one iteration of the loop, up to its test
MergePage(st, c, raw) ==
    LET named == [st EXCEPT !.name = ViewerName(raw)]
        aside == IF c.consider_forked_repos THEN named
                 ELSE [named EXCEPT !.ignored_repos =
                          Ignore(@, c, Get(ContribRepos(raw), "nodes", <<>>))]
    IN MergeRepos(aside, c, PageRepos(c, raw))

PageRaises(st, c, raw) == MergeRaises(st, c, PageRepos(c, raw))

\* stats.py 143-145
HasNextPage(conn) == Get(Get(conn, "pageInfo", EmptyDict), "hasNextPage", FALSE)

MorePagesOfOwned(raw) == HasNextPage(OwnedRepos(raw))

MorePages(raw) == HasNextPage(OwnedRepos(raw)) \/ HasNextPage(ContribRepos(raw))

\* stats.py 146-151: the cursor of the following query
NextCursor(conn, cursor) == Get(Get(conn, "pageInfo", EmptyDict), "endCursor", cursor)

\* stats.py 157
RECURSIVE SumSizes(_, _)
SumSizes(languages, names) ==
    IF names = {} THEN 0
    ELSE LET n == CHOOSE x \in names : TRUE
         IN Get(languages[n], "size", 0) + SumSizes(languages, names \ {n})

LangsTotalOfOne(languages) ==
    IF languages = EmptyDict THEN 0
    ELSE Get(languages[CHOOSE n \in DOMAIN languages : TRUE], "size", 0)

LangsTotal(languages) == SumSizes(languages, DOMAIN languages)

\* stats.py 158-159: 100 * (size / langs_total), kept as the fraction
WithProps(languages) ==
    [n \in DOMAIN languages |->
        Put(languages[n], "prop",
            <<100 * Get(languages[n], "size", 0), LangsTotal(languages)>>)]

PropsRaiseOnZero(languages) == LangsTotal(languages) = 0

\* stats.py 158-159: the division is in the loop over the languages
PropsRaise(languages) == languages # EmptyDict /\ LangsTotal(languages) = 0

\* The values the accessors hand out.
\* stats.py 225
Proportional(languages) == [n \in DOMAIN languages |-> Get(languages[n], "prop", 0)]

(***************************************************************************)
(* The flows.  A flow is a task of the event loop: a stack of coroutine    *)
(* frames, the innermost first.  Every frame has fn (the coroutine), pc    *)
(* (where it is) and r (what the coroutine it awaited returned).           *)
(***************************************************************************)
\* where the coroutines of a stack of frames are
Control(frames) ==
    [i \in 1..Len(frames) |->
        << frames[i].fn, frames[i].pc,
           IF frames[i].fn = "query_rest"
           THEN <<frames[i].i>> \o frames[i].statuses ELSE <<>>,
           IF frames[i].fn = "consumer" THEN Len(frames[i].script) ELSE 0 >>]

Tasks(stacks) == << [f \in Flows |-> Control(stacks[f])], stacks >>

Top(f) == stack[f][1]

At(f, fn, pc) ==
    /\ running = f
    /\ stack[f] # <<>>
    /\ Top(f).fn = fn
    /\ Top(f).pc = pc

\* the stack of f once its innermost frame has become fr
WithTop(f, fr) == <<fr>> \o Tail(stack[f])

\* the stack of f once its innermost frame, now `caller`, awaits `callee`
Awaiting(f, caller, callee) == <<callee, caller>> \o Tail(stack[f])

\* the stack of f once its innermost frame has returned v
Returned(f, v) ==
    LET rest == Tail(stack[f])
    IN <<[rest[1] EXCEPT !.r = v]>> \o Tail(rest)

Frame(fn) == [fn |-> fn, pc |-> "entry", r |-> None]

\* an exception nobody catches: it ends the task
Raised(f, exc) ==
    /\ tasks' = Tasks([stack EXCEPT ![f] = <<>>])
    /\ wait' = [wait EXCEPT ![f] = "raised"]
    /\ running' = 0
    /\ h' = [h EXCEPT !.exc[f] = exc]

\* asyncio.gather(generate_languages(s), generate_overview(s)): the tasks
\* take their first step in the order they were given
Start(f) ==
    /\ running = 0
    /\ wait[f] = "start"
    /\ \A g \in Flows : g < f => wait[g] # "start"
    /\ running' = f
    /\ wait' = [wait EXCEPT ![f] = "run"]
    /\ UNCHANGED <<cfg, s, tasks, sem, h>>

\* the event loop looks at the network, the timers and the semaphore only
\* when no task is ready to run: every task has taken its first step by then
Idle == running = 0 /\ \A g \in Flows : wait[g] # "start"

(***************************************************************************)
(* The consumers: helpers.generate_languages, helpers.generate_overview    *)
(* and Stats.to_str, each the sequence of accessors it awaits.             *)
(***************************************************************************)
generate_languages == <<"languages">>

generate_overview ==
    << "name", "stargazers", "forks", "total_contributions",
       "lines_changed", "lines_changed", "views", "all_repos" >>

to_str ==
    << "languages_proportional", "lines_changed", "name", "stargazers",
       "forks", "total_contributions", "all_repos", "views" >>

ConsumerCall(f) ==
    /\ At(f, "consumer", "next")
    /\ Top(f).script # <<>>
    /\ tasks' = Tasks([stack EXCEPT ![f] =
          Awaiting(f, [Top(f) EXCEPT !.pc = "got"], Frame(Head(Top(f).script)))])
    /\ h' = [h EXCEPT !.req[f] = FALSE]
    /\ UNCHANGED <<cfg, s, wait, running, sem>>

\* the value is used on the spot: what the consumer saw is kept in h.obs
ConsumerGot(f) ==
    /\ At(f, "consumer", "got")
    /\ tasks' = Tasks([stack EXCEPT ![f] =
          WithTop(f, [Top(f) EXCEPT !.pc = "next", !.script = Tail(@)])])
    /\ h' = [h EXCEPT !.obs[f] = Append(@,
                [ acc |-> Head(Top(f).script),
                  val |-> Top(f).r,
                  req |-> h.req[f] ])]
    /\ UNCHANGED <<cfg, s, wait, running, sem>>

ConsumerDone(f) ==
    /\ At(f, "consumer", "next")
    /\ Top(f).script = <<>>
    /\ tasks' = Tasks([stack EXCEPT ![f] = <<>>])
    /\ wait' = [wait EXCEPT ![f] = "done"]
    /\ running' = 0
    /\ UNCHANGED <<cfg, s, sem, h>>

(***************************************************************************)
(* The accessors that get_stats backs (stats.py 161-254).                  *)
(***************************************************************************)
OverviewAccessors ==
    { "name", "stargazers", "forks", "languages", "languages_proportional",
      "repos", "all_repos" }

Recomputed(st, field) == FALSE

\* `self._field is not None`
Cached(st, field) == field \notin st.unset

\* the test each accessor makes before it starts get_stats, and asserts after
IsSet(st, acc) ==
    CASE acc = "name" -> st.name # None
      [] acc = "stargazers" -> Cached(st, "stargazers")
      [] acc = "forks" -> Cached(st, "forks")
      [] acc \in {"languages", "languages_proportional"} -> Cached(st, "languages")
      [] acc = "repos" -> Cached(st, "repos")
      [] OTHER -> Cached(st, "repos") /\ Cached(st, "ignored_repos")

\* what each accessor returns
Value(st, acc) ==
    CASE acc = "name" -> st.name
      [] acc = "stargazers" -> st.stargazers
      [] acc = "forks" -> st.forks
      [] acc = "languages" -> st.languages
      [] acc = "languages_proportional" -> Proportional(st.languages)
      [] acc = "repos" -> st.repos
      [] OTHER -> st.repos \cup st.ignored_repos

GetStatsFrame ==
    [ fn |-> "get_stats", pc |-> "entry", r |-> None,
      next_owned |-> None, next_contrib |-> None ]

AccessorEntry(f) ==
    /\ running = f
    /\ stack[f] # <<>>
    /\ Top(f).fn \in OverviewAccessors
    /\ Top(f).pc = "entry"
    /\ tasks' = Tasks([stack EXCEPT ![f] =
          IF IsSet(s, Top(f).fn)
          THEN Returned(f, Value(s, Top(f).fn))
          ELSE Awaiting(f, [Top(f) EXCEPT !.pc = "after"], GetStatsFrame)])
    /\ UNCHANGED <<cfg, s, wait, running, sem, h>>

AccessorAfter(f) ==
    /\ running = f
    /\ stack[f] # <<>>
    /\ Top(f).fn \in OverviewAccessors
    /\ Top(f).pc = "after"
    /\ IF IsSet(s, Top(f).fn)
       THEN /\ tasks' = Tasks([stack EXCEPT ![f] = Returned(f, Value(s, Top(f).fn))])
            /\ UNCHANGED <<wait, running, h>>
       ELSE Raised(f, "AssertionError")
    /\ UNCHANGED <<cfg, s, sem>>

(***************************************************************************)
(* Stats.get_stats (stats.py 69-159).                                      *)
(***************************************************************************)
QueryFrame(q) ==
    [ fn |-> "query", pc |-> "entry", r |-> None, q |-> q, sent |-> <<>>,
      faults |-> cfg.faults ]

RestFrame(path) ==
    [ fn |-> "query_rest", pc |-> "entry", r |-> None, path |-> path, i |-> 0,
      sent |-> <<>>, statuses |-> <<>>, sleeps |-> 0, rcm |-> None,
      faults |-> cfg.faults, busy |-> cfg.busy ]

\* stats.py 74-87: the accumulators are reset, then the first page is asked
GetStatsEntry(f) ==
    /\ At(f, "get_stats", "entry")
    /\ s' = [s EXCEPT !.stargazers = 0, !.forks = 0, !.languages = EmptyDict,
                      !.repos = {}, !.ignored_repos = {},
                      !.unset = @ \ {"stargazers", "forks", "languages", "repos",
                                     "ignored_repos"}]
    /\ tasks' = Tasks([stack EXCEPT ![f] =
          Awaiting(f, [Top(f) EXCEPT !.pc = "page"],
                   QueryFrame(repos_overview(Top(f).next_contrib, Top(f).next_owned)))])
    /\ h' = [h EXCEPT !.gs = @ + 1,
                      !.gslog[f] =
                          [ queries |-> << repos_overview(Top(f).next_contrib,
                                                          Top(f).next_owned) >>,
                            pages |-> <<>>, finished |-> FALSE ]]
    /\ UNCHANGED <<cfg, wait, running, sem>>

\* stats.py 88-159: a page is merged; then the next page is asked, or the
\* proportions are computed and get_stats returns
GetStatsPage(f) ==
    /\ At(f, "get_stats", "page")
    /\ LET raw == IF ~IsNull(Top(f).r) THEN Top(f).r ELSE EmptyDict
           merged == MergePage(s, cfg, raw)
           owned == NextCursor(OwnedRepos(raw), Top(f).next_owned)
           contrib == NextCursor(ContribRepos(raw), Top(f).next_contrib)
           seen == [ owned |-> Get(Get(OwnedRepos(raw), "pageInfo", EmptyDict),
                                   "endCursor", None),
                     contrib |-> Get(Get(ContribRepos(raw), "pageInfo", EmptyDict),
                                     "endCursor", None),
                     owned_more |-> HasNextPage(OwnedRepos(raw)),
                     contrib_more |-> HasNextPage(ContribRepos(raw)),
                     more |-> MorePages(raw) ]
       IN IF PageRaises(s, cfg, raw)
          THEN /\ Raised(f, "AttributeError")
               /\ s' = merged
          ELSE IF MorePages(raw)
          THEN /\ s' = merged
               /\ tasks' = Tasks([stack EXCEPT ![f] =
                     Awaiting(f, [Top(f) EXCEPT !.next_owned = owned,
                                                !.next_contrib = contrib],
                              QueryFrame(repos_overview(contrib, owned)))])
               /\ h' = [h EXCEPT !.gslog[f].pages = Append(@, seen),
                                 !.gslog[f].queries =
                                     Append(@, repos_overview(contrib, owned))]
               /\ UNCHANGED <<wait, running>>
          ELSE IF PropsRaise(merged.languages)
          THEN /\ Raised(f, "ZeroDivisionError")
               /\ s' = merged
          ELSE /\ s' = [merged EXCEPT !.languages = WithProps(@)]
               /\ tasks' = Tasks([stack EXCEPT ![f] = Returned(f, None)])
               /\ h' = [h EXCEPT !.gslog[f].pages = Append(@, seen),
                                 !.gslog[f].finished = TRUE]
               /\ UNCHANGED <<wait, running>>
    /\ UNCHANGED <<cfg, sem>>

(***************************************************************************)
(* Queries.query (queries.py 39-77): the GraphQL request, and the          *)
(* synchronous one it falls back on.  A call ends at pc "return" or        *)
(* "raise", with what it sent still in its frame.                          *)
(***************************************************************************)
AccessToken == "token"

GraphqlRequest(transport, q) ==
    [ transport |-> transport,
      url |-> "https://api.github.com/graphql",
      headers |-> [Authorization |-> <<"Bearer", AccessToken>>],
      json |-> [query |-> q] ]

FallbackWithoutToken(q) == [GraphqlRequest("requests", q) EXCEPT !.headers = EmptyDict]

\* queries.py 72-76: the request of the fallback
FallbackRequest(q) == GraphqlRequest("requests", q)

AlwaysSlot == TRUE

\* `async with self.semaphore` goes on without waiting when a slot is free
HasSlot == sem > 0

Kept(slots) == slots

\* the end of an `async with self.semaphore` block, however it is left
Release(slots) == slots + 1

\* a coroutine at an `async with self.semaphore`, running or waiting for a slot
AtGate(f, fn, pc) ==
    /\ stack[f] # <<>>
    /\ Top(f).fn = fn
    /\ Top(f).pc = pc
    /\ \/ running = f
       \/ Idle /\ wait[f] = "sem" /\ HasSlot

\* no slot: the flow is suspended until one is released
Blocked(f) ==
    /\ wait' = [wait EXCEPT ![f] = "sem"]
    /\ running' = 0
    /\ UNCHANGED <<tasks, sem, h>>

\* what the transports may still do wrong during this call
Faulty(f, outcomes) == IF Top(f).faults > 0 THEN outcomes ELSE {}

IsFault(o) == o \notin {"ok", "200", "202"}

\* the frame of f with the outcome o counted and the fields of `changes` set
After(f, o, changes) ==
    LET fr == Top(f)
        counted == IF IsFault(o) THEN [fr EXCEPT !.faults = @ - 1]
                   ELSE IF o = "202" THEN [fr EXCEPT !.busy = @ - 1]
                   ELSE fr
    IN [k \in DOMAIN counted |-> IF k \in DOMAIN changes THEN changes[k] ELSE counted[k]]

\* a request leaves: the consumer's current call is no longer free of requests
Sent(f) == [h EXCEPT !.req[f] = TRUE]

\* queries.py 55-61: a slot is taken and the request is posted
QueryPost(f) ==
    /\ AtGate(f, "query", "entry")
    /\ IF HasSlot
       THEN /\ sem' = sem - 1
            /\ tasks' = Tasks([stack EXCEPT ![f] =
                  WithTop(f, [Top(f) EXCEPT !.pc = "post",
                      !.sent = Append(@, GraphqlRequest("aiohttp", Top(f).q))])])
            /\ wait' = [wait EXCEPT ![f] = "post"]
            /\ running' = 0
            /\ h' = Sent(f)
       ELSE Blocked(f)
    /\ UNCHANGED <<cfg, s>>

\* queries.py 57-63: the answer arrives, or the request fails; either way the
\* slot is released
PostDone(f) ==
    /\ Idle
    /\ wait[f] = "post"
    /\ \E o \in {"ok"} \cup Faulty(f, {"fail"}) :
          IF o = "ok"
          THEN /\ tasks' = Tasks([stack EXCEPT ![f] = WithTop(f, After(f, o, [pc |-> "json"]))])
               /\ wait' = [wait EXCEPT ![f] = "json"]
               /\ UNCHANGED running
          ELSE /\ tasks' = Tasks([stack EXCEPT ![f] = WithTop(f, After(f, o, [pc |-> "fallback"]))])
               /\ wait' = [wait EXCEPT ![f] = "run"]
               /\ running' = f
    /\ sem' = Release(sem)
    /\ UNCHANGED <<cfg, s, h>>

\* queries.py 62-63: rcm.json()
JsonDone(f) ==
    /\ Idle
    /\ wait[f] = "json"
    /\ Top(f).fn = "query"
    /\ \E o \in {"ok"} \cup Faulty(f, {"fail"}) :
          tasks' = Tasks([stack EXCEPT ![f] =
              WithTop(f, After(f, o,
                  IF o = "ok"
                  THEN [pc |-> "return", r |-> GraphqlAnswer(cfg, Top(f).q)]
                  ELSE [pc |-> "fallback"]))])
    /\ wait' = [wait EXCEPT ![f] = "run"]
    /\ running' = f
    /\ UNCHANGED <<cfg, s, sem, h>>

\* queries.py 66-76: a slot is taken again and the request is made with
\* requests, which blocks the event loop until it is answered
QueryFallback(f) ==
    /\ AtGate(f, "query", "fallback")
    /\ IF HasSlot
       THEN /\ sem' = sem - 1
            /\ tasks' = Tasks([stack EXCEPT ![f] =
                  WithTop(f, [Top(f) EXCEPT !.pc = "fb_post",
                      !.sent = Append(@, FallbackRequest(Top(f).q))])])
            /\ wait' = [wait EXCEPT ![f] = "run"]
            /\ running' = f
            /\ h' = Sent(f)
       ELSE Blocked(f)
    /\ UNCHANGED <<cfg, s>>

\* queries.py 72-77: rr.json() is returned, or the failure leaves query
QueryFallbackDone(f) ==
    /\ At(f, "query", "fb_post")
    /\ \E o \in {"ok"} \cup Faulty(f, {"raise"}) :
          tasks' = Tasks([stack EXCEPT ![f] =
              WithTop(f, After(f, o,
                  IF o = "ok"
                  THEN [pc |-> "return", r |-> GraphqlAnswer(cfg, Top(f).q)]
                  ELSE [pc |-> "raise"]))])
    /\ sem' = Release(sem)
    /\ UNCHANGED <<cfg, s, wait, running, h>>

\* the call returns to the coroutine that awaited it
CallReturn(f) ==
    /\ running = f
    /\ stack[f] # <<>>
    /\ Top(f).fn \in {"query", "query_rest"}
    /\ Top(f).pc = "return"
    /\ tasks' = Tasks([stack EXCEPT ![f] = Returned(f, Top(f).r)])
    /\ UNCHANGED <<cfg, s, wait, running, sem, h>>

\* the failure of the fallback is not caught by anyone
CallRaise(f) ==
    /\ running = f
    /\ stack[f] # <<>>
    /\ Top(f).fn \in {"query", "query_rest"}
    /\ Top(f).pc = "raise"
    /\ Raised(f, "RequestException")
    /\ UNCHANGED <<cfg, s, sem>>

(***************************************************************************)
(* Queries.query_rest (queries.py 79-141): up to 60 attempts, each the     *)
(* request with aiohttp and, when that fails, the one with requests.       *)
(***************************************************************************)
HTTP_OK == 200
HTTP_ACCEPTED == 202
OneAttemptMore == 60 + 1

\* queries.py 90: range(60)
Attempts == 60
NotFound == [message |-> "Not Found"]

\* what the server answers to a REST request: 202 while the data is not
\* ready, then 200 with the data; 404 is an answer of neither kind
Statuses(f) ==
    {"200"} \cup (IF Top(f).busy > 0 THEN {"202"} ELSE {}) \cup Faulty(f, {"404"})

Answer(path, status) ==
    CASE status = "202" -> [status |-> HTTP_ACCEPTED, body |-> EmptyDict]
      [] status = "200" /\ path.repo \in Repos ->
           [status |-> HTTP_OK, body |-> RestBody(path)]
      [] OTHER -> [status |-> 404, body |-> NotFound]

\* queries.py 90-104: the head of the loop; a slot is taken and the request
\* is sent; after the last attempt the empty result is returned (137-141)
RestGet(f) ==
    /\ AtGate(f, "query_rest", "entry")
    /\ IF Top(f).i >= Attempts
       THEN /\ tasks' = Tasks([stack EXCEPT ![f] =
                  WithTop(f, [Top(f) EXCEPT !.pc = "return", !.r = EmptyDict])])
            /\ h' = [h EXCEPT !.gave_up = @ \cup {Top(f).path}]
            /\ UNCHANGED <<wait, running, sem>>
       ELSE IF HasSlot
       THEN /\ sem' = sem - 1
            /\ tasks' = Tasks([stack EXCEPT ![f] =
                  WithTop(f, [Top(f) EXCEPT !.pc = "get", !.sent = Append(@, "aiohttp")])])
            /\ wait' = [wait EXCEPT ![f] = "get"]
            /\ running' = 0
            /\ h' = Sent(f)
       ELSE Blocked(f)
    /\ UNCHANGED <<cfg, s>>

AcceptedNever(rcm) == FALSE

\* queries.py 105 and 127: the test of the status
Accepted(rcm) == rcm.status = HTTP_ACCEPTED

\* queries.py 100-110: the answer arrives and the slot is released; on 202
\* the flow sleeps, otherwise it reads the body; or the request fails
RestGetDone(f) ==
    /\ Idle
    /\ wait[f] = "get"
    /\ \E o \in Statuses(f) \cup Faulty(f, {"fail"}) :
          LET rcm == Answer(Top(f).path, o)
          IN IF o = "fail"
             THEN /\ tasks' = Tasks([stack EXCEPT ![f] =
                        WithTop(f, After(f, o, [pc |-> "fallback"]))])
                  /\ wait' = [wait EXCEPT ![f] = "run"]
                  /\ running' = f
             ELSE /\ tasks' = Tasks([stack EXCEPT ![f] =
                        WithTop(f, After(f, o,
                            [ pc |-> IF Accepted(rcm) THEN "sleep" ELSE "json",
                              rcm |-> rcm,
                              statuses |-> Append(Top(f).statuses, rcm.status) ]))])
                  /\ wait' = [wait EXCEPT ![f] = IF Accepted(rcm) THEN "sleep" ELSE "json"]
                  /\ UNCHANGED running
    /\ sem' = Release(sem)
    /\ UNCHANGED <<cfg, s, h>>

\* queries.py 107-108 and 129-130: asyncio.sleep(2) is over and the loop goes
\* on; the sleep of the fallback is inside its `async with`
RestSlept(f) ==
    /\ Idle
    /\ wait[f] = "sleep"
    /\ tasks' = Tasks([stack EXCEPT ![f] =
          WithTop(f, [Top(f) EXCEPT !.pc = "entry", !.i = @ + 1, !.sleeps = @ + 1])])
    /\ sem' = IF Top(f).pc = "fb_sleep" THEN Release(sem) ELSE sem
    /\ wait' = [wait EXCEPT ![f] = "run"]
    /\ running' = f
    /\ UNCHANGED <<cfg, s, h>>

\* queries.py 110-114: rcm.json() gives the body, which is returned; or null,
\* and the loop goes on; or it fails
RestJsonDone(f) ==
    /\ Idle
    /\ wait[f] = "json"
    /\ Top(f).fn = "query_rest"
    /\ \E o \in {"ok"} \cup Faulty(f, {"null", "fail"}) :
          tasks' = Tasks([stack EXCEPT ![f] =
              WithTop(f, After(f, o,
                  CASE o = "ok" -> [pc |-> "return", r |-> Top(f).rcm.body]
                    [] o = "null" -> [pc |-> "entry", i |-> Top(f).i + 1]
                    [] OTHER -> [pc |-> "fallback"]))])
    /\ wait' = [wait EXCEPT ![f] = "run"]
    /\ running' = f
    /\ UNCHANGED <<cfg, s, sem, h>>

FallbackReturnsAny(rr) == TRUE

\* queries.py 131: the test the fallback makes before it returns rr.json()
FallbackReturns(rr) == rr.status = HTTP_OK

\* queries.py 117-126
RestFallback(f) ==
    /\ AtGate(f, "query_rest", "fallback")
    /\ IF HasSlot
       THEN /\ sem' = sem - 1
            /\ tasks' = Tasks([stack EXCEPT ![f] =
                  WithTop(f, [Top(f) EXCEPT !.pc = "fb_get", !.sent = Append(@, "requests")])])
            /\ wait' = [wait EXCEPT ![f] = "run"]
            /\ running' = f
            /\ h' = Sent(f)
       ELSE Blocked(f)
    /\ UNCHANGED <<cfg, s>>

\* queries.py 127-136: 202 sleeps with the slot held; 200 returns rr.json();
\* any other status goes on with the loop; a failure leaves query_rest
RestFallbackDone(f) ==
    /\ At(f, "query_rest", "fb_get")
    /\ \E o \in Statuses(f) \cup Faulty(f, {"raise"}) :
          LET rr == Answer(Top(f).path, o)
              statuses == Append(Top(f).statuses, rr.status)
          IN CASE o = "raise" ->
                    /\ tasks' = Tasks([stack EXCEPT ![f] = WithTop(f, After(f, o, [pc |-> "raise"]))])
                    /\ sem' = Release(sem)
                    /\ UNCHANGED <<wait, running>>
               [] o # "raise" /\ Accepted(rr) ->
                    /\ tasks' = Tasks([stack EXCEPT ![f] =
                          WithTop(f, After(f, o, [pc |-> "fb_sleep", statuses |-> statuses]))])
                    /\ wait' = [wait EXCEPT ![f] = "sleep"]
                    /\ running' = 0
                    /\ UNCHANGED sem
               [] o # "raise" /\ FallbackReturns(rr) ->
                    /\ tasks' = Tasks([stack EXCEPT ![f] =
                          WithTop(f, After(f, o,
                              [pc |-> "return", r |-> rr.body, statuses |-> statuses]))])
                    /\ sem' = Release(sem)
                    /\ UNCHANGED <<wait, running>>
               [] OTHER ->
                    /\ tasks' = Tasks([stack EXCEPT ![f] =
                          WithTop(f, After(f, o,
                              [ pc |-> "entry", i |-> Top(f).i + 1,
                                statuses |-> statuses ]))])
                    /\ sem' = Release(sem)
                    /\ UNCHANGED <<wait, running>>
    /\ UNCHANGED <<cfg, s, h>>

(***************************************************************************)
(* Stats.total_contributions (stats.py 256-285).                           *)
(***************************************************************************)
TotalContributionsEntry(f) ==
    /\ At(f, "total_contributions", "entry")
    /\ IF Cached(s, "total_contributions")
       THEN /\ tasks' = Tasks([stack EXCEPT ![f] = Returned(f, s.total_contributions)])
            /\ UNCHANGED s
       ELSE /\ s' = [s EXCEPT !.total_contributions = 0,
                              !.unset = @ \ {"total_contributions"}]
            /\ tasks' = Tasks([stack EXCEPT ![f] =
                  Awaiting(f, [Top(f) EXCEPT !.pc = "years"], QueryFrame(contrib_years))])
    /\ UNCHANGED <<cfg, wait, running, sem, h>>

\* stats.py 268-280
TotalContributionsYears(f) ==
    /\ At(f, "total_contributions", "years")
    /\ LET years == Get(Get(Viewer(Top(f).r), "contributionsCollection", EmptyDict),
                        "contributionYears", <<>>)
       IN tasks' = Tasks([stack EXCEPT ![f] =
             Awaiting(f, [Top(f) EXCEPT !.pc = "by_year"], QueryFrame(all_contribs(years)))])
    /\ UNCHANGED <<cfg, s, wait, running, sem, h>>

RECURSIVE SumContribs(_, _)
SumContribs(viewer, aliases) ==
    IF aliases = {} THEN 0
    ELSE LET a == CHOOSE x \in aliases : TRUE
         IN Get(Get(viewer[a], "contributionCalendar", EmptyDict), "totalContributions", 0)
            + SumContribs(viewer, aliases \ {a})

\* stats.py 281-285
TotalContributionsSum(f) ==
    /\ At(f, "total_contributions", "by_year")
    /\ LET by_year == Viewer(Top(f).r)
           total == s.total_contributions + SumContribs(by_year, DOMAIN by_year)
       IN /\ s' = [s EXCEPT !.total_contributions = total]
          /\ tasks' = Tasks([stack EXCEPT ![f] = Returned(f, total)])
    /\ UNCHANGED <<cfg, wait, running, sem, h>>

(***************************************************************************)
(* Stats.lines_changed (stats.py 287-317) and Stats.views (319-340).       *)
(***************************************************************************)
\* iterating a JSON array gives its entries, iterating a mapping its keys
Items(r) ==
    IF IsList(r) THEN r.list
    ELSE LET keys == SetToSeq(DOMAIN r) IN [i \in 1..Len(keys) |-> Scalar(keys[i])]

CountedOfAnyone(author_obj, username) ==
    IsDict(author_obj) /\ IsDict(Get(author_obj, "author", EmptyDict))

\* stats.py 304-310: the entries that are counted
Counted(author_obj, username) ==
    /\ IsDict(author_obj)
    /\ IsDict(Get(author_obj, "author", EmptyDict))
    /\ Get(Get(author_obj, "author", EmptyDict), "login", "") = username

RECURSIVE SumWeeks(_, _)
SumWeeks(weeks, key) ==
    IF weeks = <<>> THEN 0 ELSE Get(Head(weeks), key, 0) + SumWeeks(Tail(weeks), key)

\* stats.py 301-314: what one answer adds to additions (key "a") or
\* deletions (key "d")
RECURSIVE Lines(_, _, _)
Lines(items, username, key) ==
    IF items = <<>> THEN 0
    ELSE (IF Counted(Head(items), username)
          THEN SumWeeks(Get(Head(items), "weeks", <<>>), key) ELSE 0)
         + Lines(Tail(items), username, key)

\* stats.py 336-337
RECURSIVE SumCounts(_)
SumCounts(views) ==
    IF views = <<>> THEN 0 ELSE Get(Head(views), "count", 0) + SumCounts(Tail(views))

RepoPath(repo, what) == [repo |-> repo, what |-> what]

Asked(path) == [h EXCEPT !.rest[path] = @ + 1]

LinesChangedEntry(f) ==
    /\ At(f, "lines_changed", "entry")
    /\ tasks' = Tasks([stack EXCEPT ![f] =
          IF Cached(s, "lines_changed")
          THEN Returned(f, s.lines_changed)
          ELSE Awaiting(f, [Top(f) EXCEPT !.pc = "repos"], Frame("all_repos"))])
    /\ UNCHANGED <<cfg, s, wait, running, sem, h>>

\* stats.py 299-317: the loop, from the answer for one repository to the
\* request for the next, or to the end
LinesChangedLoop(f) ==
    /\ running = f
    /\ stack[f] # <<>>
    /\ Top(f).fn = "lines_changed"
    /\ Top(f).pc \in {"repos", "rest"}
    /\ LET first == Top(f).pc = "repos"
           todo == IF first THEN SetToSeq(Top(f).r) ELSE Tail(Top(f).todo)
           additions == IF first THEN 0
                        ELSE Top(f).additions + Lines(Items(Top(f).r), Username, "a")
           deletions == IF first THEN 0
                        ELSE Top(f).deletions + Lines(Items(Top(f).r), Username, "d")
       IN IF todo = <<>>
          THEN /\ s' = [s EXCEPT !.lines_changed = <<additions, deletions>>,
                                 !.unset = @ \ {"lines_changed"}]
               /\ tasks' = Tasks([stack EXCEPT ![f] = Returned(f, <<additions, deletions>>)])
               /\ UNCHANGED h
          ELSE /\ tasks' = Tasks([stack EXCEPT ![f] =
                     Awaiting(f, [ fn |-> "lines_changed", pc |-> "rest", r |-> None,
                                   todo |-> todo, additions |-> additions,
                                   deletions |-> deletions ],
                              RestFrame(RepoPath(Head(todo), "stats/contributors")))])
               /\ h' = Asked(RepoPath(Head(todo), "stats/contributors"))
               /\ UNCHANGED s
    /\ UNCHANGED <<cfg, wait, running, sem>>

ViewsEntry(f) ==
    /\ At(f, "views", "entry")
    /\ tasks' = Tasks([stack EXCEPT ![f] =
          IF Cached(s, "views")
          THEN Returned(f, s.views)
          ELSE Awaiting(f, [Top(f) EXCEPT !.pc = "repos"], Frame("repos"))])
    /\ UNCHANGED <<cfg, s, wait, running, sem, h>>

\* stats.py 333-340
ViewsLoop(f) ==
    /\ running = f
    /\ stack[f] # <<>>
    /\ Top(f).fn = "views"
    /\ Top(f).pc \in {"repos", "rest"}
    /\ LET first == Top(f).pc = "repos"
           todo == IF first THEN SetToSeq(Top(f).r) ELSE Tail(Top(f).todo)
           total == IF first THEN 0
                    ELSE Top(f).total + SumCounts(Get(Top(f).r, "views", <<>>))
       IN IF ~first /\ IsList(Top(f).r)
          THEN /\ Raised(f, "AttributeError")
               /\ UNCHANGED s
          ELSE IF todo = <<>>
          THEN /\ s' = [s EXCEPT !.views = total, !.unset = @ \ {"views"}]
               /\ tasks' = Tasks([stack EXCEPT ![f] = Returned(f, total)])
               /\ UNCHANGED <<wait, running, h>>
          ELSE /\ tasks' = Tasks([stack EXCEPT ![f] =
                     Awaiting(f, [ fn |-> "views", pc |-> "rest", r |-> None,
                                   todo |-> todo, total |-> total ],
                              RestFrame(RepoPath(Head(todo), "traffic/views")))])
               /\ h' = Asked(RepoPath(Head(todo), "traffic/views"))
               /\ UNCHANGED <<s, wait, running>>
    /\ UNCHANGED <<cfg, sem>>

(***************************************************************************)
(* The runs.                                                               *)
(***************************************************************************)
ListsUpTo(S, n) == UNION { [1..k -> S] : k \in 0..n }

\* Stats.__init__ (stats.py 28-41)
\* The fields that are None are those named in unset: the value beside the
\* name of an unset field is never read.
NewStats ==
    [ name |-> None, stargazers |-> 0, forks |-> 0, total_contributions |-> 0,
      languages |-> EmptyDict, repos |-> {}, ignored_repos |-> {},
      lines_changed |-> <<0, 0>>, views |-> 0,
      unset |-> { "stargazers", "forks", "total_contributions", "languages",
                  "repos", "ignored_repos", "lines_changed", "views" } ]

Consumer(script) ==
    [fn |-> "consumer", pc |-> "next", r |-> None, script |-> script]

InitRun(configs) ==
    /\ cfg \in configs
    /\ s = NewStats
    /\ tasks = Tasks([f \in Flows |-> <<Consumer(cfg.scripts[f])>>])
    /\ wait = [f \in Flows |-> "start"]
    /\ running = 0
    /\ sem = cfg.max_connections
    /\ h = [ gs |-> 0,
             req |-> [f \in Flows |-> FALSE],
             obs |-> [f \in Flows |-> <<>>],
             exc |-> [f \in Flows |-> None],
             gave_up |-> {},
             rest |-> [p \in [ repo : Repos \cup {None},
                               what : {"stats/contributors", "traffic/views"} ] |-> 0],
             gslog |-> [f \in Flows |->
                         [queries |-> <<>>, pages |-> <<>>, finished |-> FALSE]] ]

\* queries.py 32
DefaultMaxConnections == 10

\* a collection of n repositories
Listing(n) == [i \in 1..n |-> IF i % 2 = 1 THEN "u/a" ELSE "o/b"]

Accessors ==
    OverviewAccessors \cup {"total_contributions", "lines_changed", "views"}

\* generate_images.main (generate_images.py 46-55): the two generators on
\* one Stats instance
MainConfigs ==
    [ owned : {Listing(n) : n \in 0..MaxOwned},
      contrib : {<<"o/b">>},
      viewer_name : {"U"},
      exclude_repos : {{}},
      absent : {{}},
      exclude_langs : {{}},
      consider_forked_repos : BOOLEAN,
      max_connections : {DefaultMaxConnections},
      busy : {MaxBusy},
      faults : {MaxFaults},
      scripts : { <<generate_languages, generate_overview>> } ]

\* one consumer: an accessor awaited twice, or one of the consumers of the
\* repository
ScriptConfigs ==
    [ owned : {Listing(MaxOwned)},
      contrib : {<<"o/b">>},
      viewer_name : {"U", None},
      exclude_repos : {{}},
      absent : {{}},
      exclude_langs : {{}},
      consider_forked_repos : {FALSE},
      max_connections : {DefaultMaxConnections},
      busy : {MaxBusy},
      faults : {MaxFaults},
      scripts : { <<script, <<>> >> :
                    script \in { <<a, a>> : a \in Accessors }
                                \cup {to_str, generate_overview, generate_languages} } ]

\* one consumer, every statistic, over the collections the server may hold
DataConfigs ==
    [ owned : ListsUpTo(Repos, MaxOwned),
      contrib : ListsUpTo(Repos, MaxContrib),
      viewer_name : {"U"},
      exclude_repos : SUBSET Repos,
      absent : {{}},
      exclude_langs : {{}},
      consider_forked_repos : BOOLEAN,
      max_connections : {DefaultMaxConnections},
      busy : {0},
      faults : {0},
      scripts : { <<to_str, <<>> >> } ]

\* one consumer of get_stats, over collections of several pages
PagesConfigs ==
    [ owned : {Listing(n) : n \in 0..MaxOwned},
      contrib : {Listing(n) : n \in 0..MaxPages},
      viewer_name : {"U"},
      exclude_repos : {{}},
      absent : {{}},
      exclude_langs : {{}},
      consider_forked_repos : BOOLEAN,
      max_connections : {DefaultMaxConnections},
      busy : {0},
      faults : {0},
      scripts : { << <<"all_repos">>, <<>> >> } ]

\* one consumer of the languages, over the sets of excluded languages
LangConfigs ==
    [ owned : {Listing(n) : n \in 0..MaxOwned},
      contrib : {<<"o/b">>},
      viewer_name : {"U"},
      exclude_repos : {{}},
      absent : {{}},
      exclude_langs : SUBSET Langs,
      consider_forked_repos : BOOLEAN,
      max_connections : {DefaultMaxConnections},
      busy : {0},
      faults : {0},
      scripts : { << <<"languages_proportional", "languages">>, <<>> >> } ]

\* the keys of an overview answer that the program reads with a default
AbsentKeys ==
    { "data", "viewer", "name", "login", "nodes", "pageInfo",
      "nameWithOwner", "stargazers", "forkCount", "languages", "edges", "size" }

\* one consumer, and a server that leaves one key out of its overview answers
AbsentConfigs ==
    [ owned : {<<"u/a", "o/b">>},
      contrib : {<<"o/b">>},
      viewer_name : {"U", None},
      exclude_repos : {{}},
      absent : {{}} \cup {{k} : k \in AbsentKeys},
      exclude_langs : {{}, Langs},
      consider_forked_repos : BOOLEAN,
      max_connections : {DefaultMaxConnections},
      busy : {0},
      faults : {0},
      scripts : { << <<"views">>, <<>> >>,
                  << <<"lines_changed">>, <<>> >>,
                  << <<"languages_proportional", "name">>, <<>> >>,
                  << <<"name", "name">>, <<>> >> } ]

\* one consumer of a REST statistic of one repository, whose data the server
\* may never have ready
BusyConfigs ==
    [ owned : {<<"u/a">>},
      contrib : {<<>>},
      viewer_name : {"U"},
      exclude_repos : {{}},
      absent : {{}},
      exclude_langs : {{}},
      consider_forked_repos : {FALSE},
      max_connections : {DefaultMaxConnections},
      busy : {MaxBusyRest},
      faults : {0},
      scripts : { << <<"views">>, <<>> >>, << <<"lines_changed">>, <<>> >> } ]

\* the same, and total_contributions, with faults of the transports
FaultyConfigs ==
    [ owned : {<<"u/a">>},
      contrib : {<<>>},
      viewer_name : {"U"},
      exclude_repos : {{}},
      absent : {{}},
      exclude_langs : {{}},
      consider_forked_repos : {FALSE},
      max_connections : {DefaultMaxConnections},
      busy : {MaxBusy},
      faults : {MaxFaults},
      scripts : { << <<"views">>, <<>> >>, << <<"lines_changed">>, <<>> >>,
                  << <<"total_contributions">>, <<>> >> } ]

\* two callers of one Stats instance, the transports of the first failing:
\* the second asks for the statistic of the first after another one
AbortConfigs ==
    [ owned : {<<"u/a">>, <<"u/a", "o/b">>},
      contrib : {<<>>},
      viewer_name : {"U"},
      exclude_repos : {{}},
      absent : {{}},
      exclude_langs : {{}},
      consider_forked_repos : {FALSE},
      max_connections : {DefaultMaxConnections},
      busy : {0},
      faults : {MaxFaults},
      scripts : { << <<"stargazers">>, <<"total_contributions", "stargazers">> >>,
                  << <<"total_contributions">>,
                     <<"stargazers", "total_contributions">> >> } ]

\* generate_images.main with the server ready and the transports sound: the
\* two generators on one Stats instance, over collections of several pages
OverviewConfigs ==
    [ owned : {Listing(n) : n \in 0..MaxOwned},
      contrib : {<<>>, <<"o/b">>, <<"o/b", "u/a">>},
      viewer_name : {"U"},
      exclude_repos : {{}},
      absent : {{}},
      exclude_langs : {{}},
      consider_forked_repos : BOOLEAN,
      max_connections : {DefaultMaxConnections},
      busy : {0},
      faults : {0},
      scripts : { <<generate_languages, generate_overview>> } ]

\* two callers of an API client of one connection or two, with GraphQL and
\* REST requests, 202 answers and faults of the transports
FairConfigs ==
    [ owned : {<<"u/a">>},
      contrib : {<<>>},
      viewer_name : {"U"},
      exclude_repos : {{}},
      absent : {{}},
      exclude_langs : {{}},
      consider_forked_repos : {FALSE},
      max_connections : {1, MaxSlots + 1},
      busy : {MaxBusy},
      faults : {MaxFaults},
      scripts : { << <<"views">>, <<"total_contributions">> >> } ]

\* two consumers on one Stats instance, generate_languages first
SharedConfigs ==
    [ owned : {<<"u/a">>},
      contrib : {<<"o/b">>},
      viewer_name : {"U"},
      exclude_repos : {{}},
      absent : {{}},
      exclude_langs : {{}},
      consider_forked_repos : BOOLEAN,
      max_connections : {DefaultMaxConnections},
      busy : {0, MaxBusy},
      faults : {0, MaxFaults},
      scripts : { <<generate_languages, to_str>>,
                  <<generate_languages, generate_languages>> } ]

\* two consumers on an API client of few connections
GateConfigs ==
    [ owned : {<<"u/a">>},
      contrib : {<<"o/b">>},
      viewer_name : {"U"},
      exclude_repos : {{}},
      absent : {{}},
      exclude_langs : {{}},
      consider_forked_repos : {FALSE},
      max_connections : {MaxSlots},
      busy : {MaxBusy},
      faults : {0, MaxFaults},
      scripts : { <<generate_languages, generate_overview>>,
                  <<generate_languages, to_str>> } ]

Init == InitRun(MainConfigs)
InitShared == InitRun(SharedConfigs)
InitGate == InitRun(GateConfigs)
InitSeq == InitRun(ScriptConfigs \cup DataConfigs \cup PagesConfigs \cup LangConfigs)
InitAbsent == InitRun(AbsentConfigs \cup BusyConfigs \cup FaultyConfigs)

InitClient == InitRun(BusyConfigs \cup FaultyConfigs)
InitOverview == InitRun(OverviewConfigs \cup FaultyConfigs)
InitFair == InitRun(FairConfigs \cup FaultyConfigs)
InitAbort == InitRun(AbortConfigs \cup BusyConfigs \cup FaultyConfigs)

Next ==
    \E f \in Flows :
        \/ Start(f)
        \/ ConsumerCall(f)
        \/ ConsumerGot(f)
        \/ ConsumerDone(f)
        \/ AccessorEntry(f)
        \/ AccessorAfter(f)
        \/ GetStatsEntry(f)
        \/ GetStatsPage(f)
        \/ QueryPost(f)
        \/ PostDone(f)
        \/ JsonDone(f)
        \/ QueryFallback(f)
        \/ QueryFallbackDone(f)
        \/ CallReturn(f)
        \/ CallRaise(f)
        \/ RestGet(f)
        \/ RestGetDone(f)
        \/ RestSlept(f)
        \/ RestJsonDone(f)
        \/ RestFallback(f)
        \/ RestFallbackDone(f)
        \/ TotalContributionsEntry(f)
        \/ TotalContributionsYears(f)
        \/ TotalContributionsSum(f)
        \/ LinesChangedEntry(f)
        \/ LinesChangedLoop(f)
        \/ ViewsEntry(f)
        \/ ViewsLoop(f)

\* the run of generate_images.main
Spec == Init /\ [][Next]_vars

\* the runs of two consumers that share the instance
SpecShared == InitShared /\ [][Next]_vars

\* the runs of two consumers that share few connections
SpecGate == InitGate /\ [][Next]_vars

\* the runs of one consumer
SpecSeq == InitSeq /\ [][Next]_vars

\* the runs of one consumer of a statistic the API client answers alone
SpecAbsent == InitAbsent /\ [][Next]_vars

SpecClient == InitClient /\ [][Next]_vars

SpecAbort == InitAbort /\ [][Next]_vars

SpecOverview == InitOverview /\ [][Next]_vars

\* the runs over the page counts of the two collections; the event loop runs
\* a task that is ready, and the server and the timers answer in the end
InitPages == InitRun(PagesConfigs \cup FaultyConfigs)

\* where every flow is: the flow that runs, what the others wait for, where
\* their coroutines are, the overview queries sent; every step changes it
position ==
    <<running, wait, tasks[1], [f \in Flows |-> Len(h.gslog[f].queries)]>>

SpecPages == InitPages /\ [][Next]_vars /\ WF_position(Next)

\* the event loop goes on as long as a task can run or an answer can arrive
SpecFair == InitFair /\ [][Next]_vars /\ WF_position(Next)

(***************************************************************************)
(* What a run is expected to arrive at.                                    *)
(***************************************************************************)
Nodes(list) == [i \in 1..Len(list) |-> Node(list[i])]

\* the statistics of get_stats computed from the whole collections at once
Complete(c) ==
    LET aside == [NewStats EXCEPT
                     !.name = IF c.viewer_name # None THEN c.viewer_name ELSE Username,
                     !.ignored_repos =
                         IF c.consider_forked_repos THEN {}
                         ELSE {r \in Repos : \E i \in 1..Len(c.contrib) : c.contrib[i] = r}
                              \ c.exclude_repos]
        merged == MergeRepos(aside, c,
                      Nodes(IF c.consider_forked_repos THEN c.owned \o c.contrib
                            ELSE c.owned))
    IN [merged EXCEPT !.languages = WithProps(@)]

\* the value of every statistic when the server is ready and nothing fails
Expected(c, acc) ==
    LET all == Complete(c).repos \cup Complete(c).ignored_repos
    IN CASE acc \in OverviewAccessors -> Value(Complete(c), acc)
         [] acc = "total_contributions" ->
              SumSeq([i \in 1..Len(ContribYears) |-> ContribsIn(ContribYears[i])])
         [] acc = "lines_changed" -> <<5 * Cardinality(all), Cardinality(all)>>
         [] OTHER -> 9 * Cardinality(Complete(c).repos)

Quiet(c) == c.faults = 0 /\ c.busy = 0

\* the flows with a get_stats under way
Computing == {f \in Flows : \E i \in 1..Len(stack[f]) : stack[f][i].fn = "get_stats"}

(***************************************************************************)
(* C1: when generate_languages and generate_overview are started together  *)
(* on one Stats instance, at most one get_stats is ever started: the name   *)
(* accessor of the second consumer starts none while the first one awaits   *)
(* its response.                                                            *)
(***************************************************************************)
C1_AtMostOneGetStats == h.gs <= 1 /\ Cardinality(Computing) <= 1

(***************************************************************************)
(* C2: an accessor never returns a value while the computation backing its  *)
(* statistic is in progress: whoever asks, and whenever, what a consumer    *)
(* gets is the completed final value.                                       *)
(***************************************************************************)
C2_OnlyCompletedValues ==
    Quiet(cfg) =>
        \A f \in Flows : \A i \in 1..Len(h.obs[f]) :
            h.obs[f][i].val = Expected(cfg, h.obs[f][i].acc)

(***************************************************************************)
(* C3: an accessor awaited twice in sequence, the second time after the    *)
(* first returned, returns the identical value both times, and its second  *)
(* call sends no GraphQL or REST request.                                   *)
(***************************************************************************)
C3_SecondCallIsCached ==
    \A f \in Flows : \A i, j \in 1..Len(h.obs[f]) :
        i < j /\ h.obs[f][i].acc = h.obs[f][j].acc =>
            /\ h.obs[f][j].val = h.obs[f][i].val
            /\ ~h.obs[f][j].req

\* views was awaited twice: the first call computed it with REST requests
C3_Witness ==
    /\ Len(h.obs[1]) = 2
    /\ h.obs[1][1].acc = "views" /\ h.obs[1][2].acc = "views"
    /\ h.obs[1][1].req
    /\ h.obs[1][1].val = 18

\* stargazers, forks and languages with every repository of `repos` added
\* exactly once
Once(repos) ==
    MergeRepos(NewStats, [exclude_repos |-> {}, exclude_langs |-> cfg.exclude_langs],
               Nodes(SetToSeq(repos)))

Sizes(languages) ==
    [n \in DOMAIN languages |-> <<languages[n].size, languages[n].occurrences>>]

TotalsOnce ==
    /\ s.stargazers = Once(s.repos).stargazers
    /\ s.forks = Once(s.repos).forks
    /\ Sizes(s.languages) = Sizes(Once(s.repos).languages)

Finished(f) == h.gslog[f].finished

(***************************************************************************)
(* C4: after get_stats, whatever the overview pages were, no repository is *)
(* both in the included and in the ignored set, and a repository seen on   *)
(* several pages is included once, its stargazers, forks and languages     *)
(* added to the totals exactly once.                                        *)
(***************************************************************************)
C4_DisjointAndOnce ==
    Finished(1) => s.repos \cap s.ignored_repos = {} /\ TotalsOnce

(***************************************************************************)
(* C5: a repository of the exclusion set never contributes: it is neither  *)
(* included nor ignored, its stargazers, forks and languages are in no     *)
(* total, and neither lines_changed nor views sends a REST query for it,   *)
(* on whichever pages and in whichever collection it appears.               *)
(***************************************************************************)
C5_ExcludedNeverCounts ==
    /\ (s.repos \cup s.ignored_repos) \cap cfg.exclude_repos = {}
    /\ TotalsOnce
    /\ \A p \in DOMAIN h.rest : p.repo \in cfg.exclude_repos => h.rest[p] = 0
    /\ \A f \in Flows : \A i \in 1..Len(h.obs[f]) :
          h.obs[f][i].acc = "all_repos" => h.obs[f][i].val \cap cfg.exclude_repos = {}

\* o/b is excluded and is on a page of both collections; to_str is through,
\* and only u/a was counted and asked about
C5_Witness ==
    /\ cfg.exclude_repos = {"o/b"}
    /\ cfg.owned = <<"u/a", "o/b">>
    /\ cfg.contrib = <<"o/b", "o/b">>
    /\ wait[1] = "done"
    /\ s.repos = {"u/a"}
    /\ s.ignored_repos = {}
    /\ s.stargazers = Stars("u/a")
    /\ h.rest[RepoPath("u/a", "traffic/views")] = 1
    /\ h.rest[RepoPath("u/a", "stats/contributors")] = 1

\* the pages a collection is delivered in
PagesOf(list) ==
    IF list = <<>> THEN 1 ELSE (Len(list) + PageSize - 1) \div PageSize

Max(a, b) == IF a > b THEN a ELSE b

\* get_stats has computed the proportions
Settled == \E n \in DOMAIN s.languages : "prop" \in DOMAIN s.languages[n]

(***************************************************************************)
(* C6: for a collection delivered in N pages get_stats sends exactly N     *)
(* overview queries, query k+1 carries the endCursor that page k reported, *)
(* and the proportions are computed only once the last page is merged.      *)
(***************************************************************************)
C6_OneQueryPerPage ==
    LET log == h.gslog[1]
    IN /\ Finished(1) =>
             /\ Len(log.queries) = Max(PagesOf(cfg.owned), PagesOf(cfg.contrib))
             /\ \A k \in 1..(Len(log.queries) - 1) :
                   /\ log.queries[k + 1].owned_after = AfterArg(log.pages[k].owned)
                   /\ log.queries[k + 1].contrib_after = AfterArg(log.pages[k].contrib)
       /\ Settled => Finished(1)

(***************************************************************************)
(* The calls of the API client, looked at when they end.                   *)
(***************************************************************************)
\* the flows whose innermost coroutine is fn
In(fn) == {f \in Flows : stack[f] # <<>> /\ Top(f).fn = fn}

\* the faults of the transports during the call so far
Faults(f) == cfg.faults - Top(f).faults

Repeat(x, n) == [i \in 1..n |-> x]

(***************************************************************************)
(* C7: in query_rest, when the server answers 202 to the first k requests  *)
(* (k < 60) and 200 to the next, and no transport fails, the client has    *)
(* made exactly k+1 requests, has slept exactly k times, and returns the   *)
(* body of the 200 response.                                                *)
(***************************************************************************)
C7_RetriesUntilReady ==
    \A f \in In("query_rest") :
        Faults(f) = 0 =>
            /\ \A k \in 0..59 :
                  Top(f).statuses = Repeat(202, k) \o <<200>> =>
                      /\ Top(f).pc \in {"json", "return"}
                      /\ Len(Top(f).sent) = k + 1
                      /\ Top(f).sleeps = k
                      /\ Top(f).pc = "return" => Top(f).r = RestBody(Top(f).path)
            /\ Top(f).pc = "return" /\ Len(Top(f).sent) < 60 =>
                  \E k \in 0..59 : Top(f).statuses = Repeat(202, k) \o <<200>>

\* 202 three times, then 200: the fourth request's body is returned
C7_Witness ==
    \E f \in In("query_rest") :
        /\ Top(f).statuses = <<202, 202, 202, 200>>
        /\ Faults(f) = 0
        /\ Top(f).pc = "return"
        /\ Len(Top(f).sent) = 4
        /\ Top(f).sleeps = 3
        /\ Top(f).r = Traffic("u/a")

\* what the statistic arrives at when the repositories of `lost` gave nothing
Degraded(acc, repos, lost) ==
    LET counted(what) == {r \in repos : RepoPath(r, what) \notin lost}
    IN IF acc = "views" THEN 9 * Cardinality(counted("traffic/views"))
       ELSE << 5 * Cardinality(counted("stats/contributors")),
               Cardinality(counted("stats/contributors")) >>

(***************************************************************************)
(* C8: in query_rest, when the server answers 202 to every request, the    *)
(* client stops after exactly 60 attempts and returns the empty result     *)
(* without raising, and lines_changed or views, whichever asked, completes *)
(* with that repository contributing zero.                                  *)
(***************************************************************************)
C8_GivesUpAfterSixty ==
    /\ \A f \in In("query_rest") :
          /\ Top(f).statuses = Repeat(202, Len(Top(f).statuses))
          /\ Faults(f) = 0
          => /\ Top(f).pc # "raise"
             /\ Len(Top(f).sent) <= 60
             /\ Top(f).pc = "return" =>
                   /\ Len(Top(f).sent) = 60
                   /\ Top(f).sleeps = 60
                   /\ Top(f).r = EmptyDict
                   /\ Top(f).path \in h.gave_up
    /\ cfg.faults = 0 =>
          /\ h.exc[1] = None
          /\ \A i \in 1..Len(h.obs[1]) :
                h.obs[1][i].acc \in {"views", "lines_changed"} =>
                    h.obs[1][i].val =
                        Degraded(h.obs[1][i].acc,
                                 IF h.obs[1][i].acc = "views" THEN s.repos
                                 ELSE s.repos \cup s.ignored_repos,
                                 h.gave_up)
          /\ h.gave_up # {} => wait[1] # "raised"

\* views asked for u/a, the client gave up, and views completed with 0
C8_Witness ==
    /\ wait[1] = "done"
    /\ h.gave_up = {RepoPath("u/a", "traffic/views")}
    /\ h.rest[RepoPath("u/a", "traffic/views")] = 1
    /\ Len(h.obs[1]) = 1
    /\ h.obs[1][1].acc = "views"
    /\ h.obs[1][1].val = 0
    /\ s.views = 0 /\ "views" \notin s.unset

(***************************************************************************)
(* C9: in Queries.query, a failure of the asynchronous request or of the   *)
(* decoding of its response leads to exactly one request on the            *)
(* synchronous transport, with the same headers and body; when that one    *)
(* succeeds its JSON is returned, when it fails the failure reaches the    *)
(* caller and nothing more is sent.                                         *)
(***************************************************************************)
C9_OneFallback ==
    /\ \A f \in In("query") :
          LET fr == Top(f)
          IN /\ Len(fr.sent) <= 2
             /\ fr.pc \in {"return", "raise"} =>
                   /\ fr.sent[1] = GraphqlRequest("aiohttp", fr.q)
                   /\ Faults(f) = 0 => Len(fr.sent) = 1 /\ fr.pc = "return"
                   /\ Faults(f) > 0 =>
                         /\ Len(fr.sent) = 2
                         /\ fr.sent[2].transport = "requests"
                         /\ fr.sent[2].url = fr.sent[1].url
                         /\ fr.sent[2].headers = fr.sent[1].headers
                         /\ fr.sent[2].json = fr.sent[1].json
                   /\ fr.pc = "return" => fr.r = GraphqlAnswer(cfg, fr.q)
                   /\ fr.pc = "raise" <=> Faults(f) = 2
    /\ \A f \in Flows :
          h.exc[f] = "RequestException" => stack[f] = <<>> /\ wait[f] = "raised"

\* the asynchronous request failed and the synchronous one was answered
C9_Witness ==
    \E f \in In("query") :
        /\ Top(f).pc = "return"
        /\ Faults(f) = 1
        /\ Len(Top(f).sent) = 2
        /\ Top(f).sent[2] = FallbackRequest(contrib_years)
        /\ Top(f).r = GraphqlAnswer(cfg, contrib_years)

(***************************************************************************)
(* C10: in query_rest, a response whose status is neither 200 nor 202 is   *)
(* never what the caller gets: the result is the body of a 200 response or, *)
(* with the 60 attempts used up, the empty result.                          *)
(***************************************************************************)
C10_OnlyOkBodies ==
    \A f \in In("query_rest") :
        Top(f).pc = "return" =>
            \/ /\ Top(f).r = RestBody(Top(f).path)
               /\ Top(f).statuses # <<>>
               /\ Top(f).statuses[Len(Top(f).statuses)] = 200
            \/ Top(f).r = EmptyDict /\ Top(f).i = 60

Count(seq, x) == Cardinality({k \in 1..Len(seq) : seq[k] = x})

Last(seq) == seq[Len(seq)]

(***************************************************************************)
(* C11: in query_rest, a failure of the asynchronous transport on an       *)
(* attempt is followed by one synchronous request for that attempt, under  *)
(* the same policy: a 202 answer to it makes the client sleep and try       *)
(* again, a 200 answer returns the body, and the attempts, an asynchronous *)
(* request and its fallback counting as one, never exceed 60.               *)
(***************************************************************************)
C11_FallbackSamePolicy ==
    \A f \in In("query_rest") :
        LET fr == Top(f)
        IN /\ \A k \in 1..Len(fr.sent) :
                 fr.sent[k] = "requests" => k > 1 /\ fr.sent[k - 1] = "aiohttp"
           /\ Count(fr.sent, "requests") <= Faults(f)
           /\ fr.pc \in {"fallback", "fb_get", "fb_sleep"} => Faults(f) > 0
           /\ fr.pc = "fallback" => Last(fr.sent) = "aiohttp"
           /\ Count(fr.sent, "aiohttp") \in {fr.i, fr.i + 1}
           /\ Count(fr.sent, "aiohttp") <= 60
           /\ fr.sleeps = Count(fr.statuses, 202)
                             - (IF fr.pc \in {"sleep", "fb_sleep"} THEN 1 ELSE 0)
           /\ fr.sent # <<>> /\ Last(fr.sent) = "requests"
                 /\ fr.pc \notin {"fb_get", "raise"} =>
                 /\ fr.statuses # <<>>
                 /\ fr.pc = "fb_sleep" <=>
                       Last(fr.statuses) = 202 /\ fr.sleeps < Count(fr.statuses, 202)
                 /\ Last(fr.statuses) = 200 =>
                       fr.pc = "return" /\ fr.r = RestBody(fr.path)
                 /\ fr.pc = "return" =>
                       \/ Last(fr.statuses) = 200 /\ fr.r = RestBody(fr.path)
                       \/ fr.i = 60 /\ fr.r = EmptyDict
                 /\ Last(fr.statuses) \notin {200, 202} => fr.pc \in {"entry", "return"}

\* the first attempt failed on aiohttp, its fallback was answered 202, the
\* client slept, and is at the head of its second attempt
C11_Witness ==
    \E f \in In("query_rest") :
        /\ Top(f).sent = <<"aiohttp", "requests">>
        /\ Top(f).statuses = <<202>>
        /\ Top(f).pc = "entry"
        /\ Top(f).i = 1
        /\ Top(f).sleeps = 1

\* the flows with a request sent and not yet answered
InFlight ==
    { f \in In("query") \cup In("query_rest") :
        Top(f).pc \in {"post", "get", "fb_post", "fb_get"} }

\* the flows inside an `async with self.semaphore`
Holders == InFlight \cup {f \in In("query_rest") : Top(f).pc = "fb_sleep"}

(***************************************************************************)
(* C12: at every moment the requests of the API client that were sent and  *)
(* are not yet answered, GraphQL and REST, asynchronous and fallback, are   *)
(* at most max_connections; a caller that finds no slot free waits, with    *)
(* nothing sent, until one is released.                                     *)
(***************************************************************************)
C12_AtMostMaxConnections ==
    /\ Cardinality(InFlight) <= cfg.max_connections
    /\ sem >= 0
    /\ sem + Cardinality(Holders) = cfg.max_connections
    /\ \A f \in Flows :
          wait[f] = "sem" =>
              /\ f \notin Holders
              /\ Top(f).pc \in {"entry", "fallback"}

\* one connection: a flow has its overview query in flight, the other
\* waits for the slot with nothing sent
C12_Witness ==
    /\ cfg.max_connections = 1
    /\ sem = 0
    /\ InFlight = {1}
    /\ wait[2] = "sem"
    /\ Top(2).fn = "query" /\ Top(2).pc = "entry" /\ Top(2).sent = <<>>

\* the bytes of language n the server reports for repository r, and for a
\* set of repositories
BytesIn(r, n) ==
    SumSeq([k \in 1..Len(LangEdges(r)) |->
               IF LangEdges(r)[k].node.name = n THEN LangEdges(r)[k].size ELSE 0])

Bytes(repos, n) ==
    LET q == SetToSeq(repos) IN SumSeq([i \in 1..Len(q) |-> BytesIn(q[i], n)])

LangsOf(repos) ==
    {n \in Langs : \E r \in repos : \E k \in 1..Len(LangEdges(r)) :
                      LangEdges(r)[k].node.name = n}

\* the bytes of the languages that are not excluded
BytesKept(repos) ==
    LET q == SetToSeq(LangsOf(repos) \ cfg.exclude_langs)
    IN SumSeq([i \in 1..Len(q) |-> Bytes(repos, q[i])])

(***************************************************************************)
(* C13: a language of the excluded-language set never has an entry in the  *)
(* language totals and its bytes are not in the total the proportions are  *)
(* divided by, in whichever repositories and pages it appears.              *)
(***************************************************************************)
C13_ExcludedLanguages ==
    /\ DOMAIN s.languages = LangsOf(s.repos) \ cfg.exclude_langs
    /\ \A n \in DOMAIN s.languages :
          /\ s.languages[n].size = Bytes(s.repos, n)
          /\ "prop" \in DOMAIN s.languages[n] =>
                s.languages[n].prop = <<100 * Bytes(s.repos, n), BytesKept(s.repos)>>
    /\ \A f \in Flows : \A i \in 1..Len(h.obs[f]) :
          h.obs[f][i].acc \in {"languages", "languages_proportional"} =>
              DOMAIN h.obs[f][i].val \cap cfg.exclude_langs = {}

\* Python is excluded and is in both repositories, on two pages: only C is
\* recorded, against its own 2 bytes
C13_Witness ==
    /\ cfg.exclude_langs = {"Python"}
    /\ cfg.owned = <<"u/a", "o/b">>
    /\ Finished(1)
    /\ s.repos = {"u/a", "o/b"}
    /\ DOMAIN s.languages = {"C"}
    /\ s.languages["C"].prop = <<200, 2>>
    /\ Len(h.obs[1]) = 2
    /\ h.obs[1][1].val = [C |-> <<200, 2>>]

\* the sum of the sizes recorded in the language totals
SizeSum(languages) ==
    LET q == SetToSeq(DOMAIN languages)
    IN SumSeq([i \in 1..Len(q) |-> languages[q[i]].size])

\* the sum of the numerators of a mapping of proportions
PropSum(props) ==
    LET q == SetToSeq(DOMAIN props) IN SumSeq([i \in 1..Len(q) |-> props[q[i]][1]])

\* the repositories get_stats includes once every page was merged
IncludedAtEnd ==
    {r \in Repos : \/ \E i \in 1..Len(cfg.owned) : cfg.owned[i] = r
                   \/ /\ cfg.consider_forked_repos
                      /\ \E i \in 1..Len(cfg.contrib) : cfg.contrib[i] = r}
        \ cfg.exclude_repos

(***************************************************************************)
(* C14: after get_stats completes with language totals of non-zero         *)
(* aggregate size, every language of the mapping has the proportion        *)
(* 100 * size / (sum of the sizes of the mapping), so the proportions sum  *)
(* to 100; no language is without a proportion, and the denominator is the *)
(* total over every page: no proportion exists before the last page.       *)
(***************************************************************************)
C14_ProportionsSumTo100 ==
    /\ Finished(1) /\ SizeSum(s.languages) # 0 =>
          /\ \A n \in DOMAIN s.languages :
                /\ "prop" \in DOMAIN s.languages[n]
                /\ s.languages[n].prop =
                      <<100 * s.languages[n].size, SizeSum(s.languages)>>
          /\ PropSum(Proportional(s.languages)) = 100 * SizeSum(s.languages)
          /\ SizeSum(s.languages) = BytesKept(IncludedAtEnd)
    /\ ~Finished(1) => \A n \in DOMAIN s.languages : "prop" \notin DOMAIN s.languages[n]
    /\ \A f \in Flows : \A i \in 1..Len(h.obs[f]) :
          h.obs[f][i].acc = "languages_proportional" =>
              \A n \in DOMAIN h.obs[f][i].val :
                  /\ h.obs[f][i].val[n][2] = BytesKept(IncludedAtEnd)
                  /\ PropSum(h.obs[f][i].val) = 100 * h.obs[f][i].val[n][2]

\* two languages over two pages: Python has 4 of the 6 bytes, C has 2
C14_Witness ==
    /\ cfg.owned = <<"u/a", "o/b">> /\ cfg.exclude_langs = {}
    /\ Finished(1)
    /\ Len(h.obs[1]) >= 1
    /\ h.obs[1][1].acc = "languages_proportional"
    /\ h.obs[1][1].val = [Python |-> <<400, 6>>, C |-> <<200, 6>>]

\* the keys that the overview answers are read with a default for
DefaultedKeys ==
    { "nameWithOwner", "stargazers", "forkCount", "languages",
      "data", "viewer", "nodes", "pageInfo" }

(***************************************************************************)
(* C15: a key that is absent from an overview answer (of a repository      *)
(* node: nameWithOwner, stargazers, forkCount, languages; of a page: data, *)
(* viewer, nodes, pageInfo) is defaulted and never makes get_stats,        *)
(* lines_changed or views raise.                                            *)
(***************************************************************************)
C15_AbsentKeysAreDefaulted ==
    cfg.absent \subseteq DefaultedKeys /\ cfg.absent # {} /\ cfg.exclude_langs = {} =>
        \A f \in Flows : h.exc[f] = None

\* the same for every key of the claim but stargazers
OtherKeysAreDefaulted ==
    cfg.absent \subseteq DefaultedKeys \ {"stargazers"} /\ cfg.absent # {}
        /\ cfg.exclude_langs = {} =>
            \A f \in Flows : h.exc[f] = None

\* the traffic/views queries sent for a repository
ViewsQueries(r) == h.rest[RepoPath(r, "traffic/views")]

(***************************************************************************)
(* C16: views sends exactly one traffic/views query for each repository of *)
(* the included set and none for a repository of the ignored set, and its  *)
(* result is the sum of the counts of the reported days over the included  *)
(* repositories only.                                                       *)
(***************************************************************************)
C16_ViewsOverIncludedOnly ==
    Quiet(cfg) /\ "views" \notin s.unset =>
        /\ \A r \in s.repos : ViewsQueries(r) = 1
        /\ \A r \in s.ignored_repos : ViewsQueries(r) = 0
        /\ \A r \in Repos \ s.repos : ViewsQueries(r) = 0
        /\ s.views = 9 * Cardinality(s.repos)

\* the same, where no repository is both included and ignored
ViewsOverIncludedWhenDisjoint ==
    Quiet(cfg) /\ "views" \notin s.unset /\ s.repos \cap s.ignored_repos = {} =>
        /\ \A r \in s.repos : ViewsQueries(r) = 1
        /\ \A r \in s.ignored_repos : ViewsQueries(r) = 0
        /\ \A r \in Repos \ s.repos : ViewsQueries(r) = 0
        /\ s.views = 9 * Cardinality(s.repos)

\* the stats/contributors queries sent for a repository
ContributorsQueries(r) == h.rest[RepoPath(r, "stats/contributors")]

ContinuesWhileEither ==
    \A f \in Flows :
        LET log == h.gslog[f]
        IN \A k \in 1..Len(log.pages) :
              /\ log.pages[k].more = (log.pages[k].owned_more \/ log.pages[k].contrib_more)
              /\ Len(log.queries) > k <=> log.pages[k].more

(***************************************************************************)
(* C18: the pagination loop of get_stats goes on while either the owned or *)
(* the contributed-to page reports hasNextPage, and each cursor is         *)
(* advanced only when its own collection reports a next page: the cursor   *)
(* of a collection whose page reports hasNextPage false is the same in the *)
(* next query.                                                              *)
(***************************************************************************)
C18_EachCursorAdvancesAlone ==
    /\ ContinuesWhileEither
    /\ \A f \in Flows :
          LET log == h.gslog[f]
          IN \A k \in 1..Len(log.pages) :
                Len(log.queries) > k =>
                    /\ log.queries[k + 1].owned_after =
                          IF log.pages[k].owned_more THEN AfterArg(log.pages[k].owned)
                          ELSE log.queries[k].owned_after
                    /\ log.queries[k + 1].contrib_after =
                          IF log.pages[k].contrib_more THEN AfterArg(log.pages[k].contrib)
                          ELSE log.queries[k].contrib_after

(***************************************************************************)
(* C19 as the specification states it: when the total size of the recorded *)
(* languages is zero after the loop, the case where no language remains    *)
(* after filtering included, the proportion step fails with a division by  *)
(* zero, so get_stats never completes with a zero total.                   *)
(***************************************************************************)
C19_ZeroTotalFails ==
    \A f \in Flows : Finished(f) => SizeSum(s.languages) # 0

(***************************************************************************)
(* C19, amended: the proportion step fails with a division by zero exactly *)
(* when at least one language is recorded and the total size is zero; when *)
(* no language is recorded (none remains after filtering) the step divides *)
(* nothing and get_stats completes with an empty mapping of proportions.   *)
(***************************************************************************)
C19_ZeroTotalOfRecordedFails ==
    /\ \A f \in Flows :
          Finished(f) => s.languages = EmptyDict \/ SizeSum(s.languages) # 0
    /\ \A f \in Flows :
          h.exc[f] = "ZeroDivisionError" =>
              /\ s.languages # EmptyDict
              /\ SizeSum(s.languages) = 0
              /\ ~Finished(f)
              /\ \A n \in DOMAIN s.languages : "prop" \notin DOMAIN s.languages[n]
    /\ Computing = {} /\ s.languages # EmptyDict /\ SizeSum(s.languages) = 0 =>
          \E f \in Flows : h.exc[f] = "ZeroDivisionError"
    /\ \A f \in Flows : \A i \in 1..Len(h.obs[f]) :
          h.obs[f][i].acc = "languages_proportional" /\ cfg.exclude_langs = Langs =>
              h.obs[f][i].val = EmptyDict

\* the edges come without size: Python and C are recorded with 0 bytes and
\* the division fails
C19_Witness ==
    /\ cfg.absent = {"size"}
    /\ h.exc[1] = "ZeroDivisionError"
    /\ DOMAIN s.languages = {"Python", "C"}
    /\ SizeSum(s.languages) = 0
    /\ ~Finished(1)

\* every language is excluded: get_stats completes and the proportions are
\* the empty mapping
NoLanguageRemains ==
    /\ cfg.exclude_langs = Langs
    /\ Finished(1)
    /\ s.languages = EmptyDict
    /\ Len(h.obs[1]) >= 1
    /\ h.obs[1][1] = [acc |-> "languages_proportional", val |-> EmptyDict, req |-> TRUE]

\* the display name the overview answers of the run call for
DisplayName ==
    IF cfg.viewer_name # None /\ cfg.absent \cap {"data", "viewer", "name"} = {}
    THEN cfg.viewer_name
    ELSE IF cfg.absent \cap {"data", "viewer", "login"} = {} THEN Username
    ELSE "No Name"

(***************************************************************************)
(* C20: after get_stats returns the display name is never unset: it is the *)
(* viewer's name when present and not null, otherwise the login, otherwise *)
(* the literal "No Name"; so the assertion of the name accessor holds, and *)
(* a later access of the name starts no get_stats again.                   *)
(***************************************************************************)
C20_NameNeverUnset ==
    /\ \A f \in Flows :
          /\ Finished(f) => s.name # None /\ s.name = DisplayName
          /\ h.exc[f] # "AssertionError"
          /\ \A i \in 1..Len(h.obs[f]) :
                /\ h.obs[f][i].acc = "name" =>
                      h.obs[f][i].val # None /\ h.obs[f][i].val = DisplayName
                /\ h.obs[f][i].acc = "name" /\ i > 1 => ~h.obs[f][i].req
    /\ h.gs <= 1

\* name is null and login is absent: the name is the literal, and the second
\* access returns it without a request
C20_Witness ==
    /\ cfg.viewer_name = None /\ cfg.absent = {"login"}
    /\ Finished(1)
    /\ s.name = "No Name"
    /\ h.obs[1] = << [acc |-> "name", val |-> "No Name", req |-> TRUE],
                     [acc |-> "name", val |-> "No Name", req |-> FALSE] >>

\* the pages of a collection that have nodes
FullPages(list) == (Len(list) + PageSize - 1) \div PageSize

\* a collection of m pages is read in rounds of m + 1 queries (its pages,
\* then the empty page after its end), and reports no next page in the last
\* two of a round: both do so together within a round of rounds
QueryBound == (FullPages(cfg.owned) + 1) * (FullPages(cfg.contrib) + 1)

\* no get_stats is under way; where nothing failed, each one that was
\* started has returned, after a page on which neither collection
\* reported a next page
LoopEnded ==
    /\ Computing = {}
    /\ Quiet(cfg) =>
          \A f \in Flows :
              h.gslog[f].queries # <<>> =>
                  /\ Finished(f)
                  /\ ~h.gslog[f].pages[Len(h.gslog[f].pages)].owned_more
                  /\ ~h.gslog[f].pages[Len(h.gslog[f].pages)].contrib_more

(***************************************************************************)
(* C21: get_stats terminates whenever the owned and the contributed-to     *)
(* collection have finitely many pages: for every combination of page      *)
(* counts the loop reaches an iteration where neither page reports a next  *)
(* page, also when one collection is exhausted iterations before the other *)
(* and then reports a null endCursor.  A get_stats under way ends, and it  *)
(* sends a bounded number of overview queries.                              *)
(***************************************************************************)
C21_GetStatsTerminates ==
    /\ [](\A f \in Flows : Len(h.gslog[f].queries) <= QueryBound)
    /\ (Computing # {}) ~> LoopEnded

\* one owned page and four contributed-to pages: the owned collection
\* reported a null endCursor on the way, and get_stats returned
C21_Witness ==
    /\ Len(cfg.owned) = 1 /\ Len(cfg.contrib) = 4
    /\ Finished(1)
    /\ 1 \notin Computing
    /\ \E k \in 1..Len(h.gslog[1].pages) :
          /\ k + 1 < Len(h.gslog[1].pages)
          /\ h.gslog[1].pages[k].owned = None
          /\ h.gslog[1].pages[k].contrib_more

\* the values generate_languages and generate_overview read from get_stats
Overview == {"name", "stargazers", "forks", "languages", "all_repos"}

\* what the consumers of flow f read from get_stats
ReadOf(f) == {i \in 1..Len(h.obs[f]) : h.obs[f][i].acc \in Overview}

(***************************************************************************)
(* C22: when generate_languages and generate_overview run together on one  *)
(* Stats instance, every value either of them reads from get_stats (name,  *)
(* stargazers, forks, the languages with their sizes and proportions, the  *)
(* included and ignored repositories) equals the value one sequential      *)
(* get_stats computes from the same pages, whatever the order in which the *)
(* overview responses arrive; and once the computations are over every     *)
(* repository has been counted exactly once and none is missing.           *)
(***************************************************************************)
C22_ConcurrentReadsEqualSequential ==
    /\ \A f \in Flows : \A i \in ReadOf(f) :
           h.obs[f][i].val = Expected(cfg, h.obs[f][i].acc)
    /\ (Computing = {} /\ \E f \in Flows : Finished(f)) =>
           /\ s.repos = Complete(cfg).repos
           /\ s.ignored_repos = Complete(cfg).ignored_repos
           /\ TotalsOnce

\* two get_stats ran to their end on the same accumulators over two pages,
\* and both consumers have read their values
C22_Witness ==
    /\ h.gs = 2
    /\ Len(cfg.owned) = 2
    /\ Finished(1) /\ Finished(2)
    /\ ReadOf(1) # {}
    /\ \E i \in ReadOf(2) : h.obs[2][i].acc = "all_repos"

\* the task of flow f awaited the accessor acc and nothing else, and the
\* failure of the fallback transport ended it: the computation behind acc
\* was aborted
Aborted(f, acc) ==
    /\ cfg.scripts[f] = <<acc>>
    /\ h.exc[f] = "RequestException"
    /\ h.obs[f] = <<>>

\* a step in which a call of the accessor acc returns to another consumer
\* than that of flow f, and what it returns
LaterCall(f, acc) ==
    \E g \in Flows \ {f} :
        /\ Len(h'.obs[g]) = Len(h.obs[g]) + 1
        /\ h'.obs[g][Len(h'.obs[g])].acc = acc

Returns(f, acc) ==
    { h'.obs[g][Len(h'.obs[g])].val :
          g \in {x \in Flows \ {f} : Len(h'.obs[x]) = Len(h.obs[x]) + 1} }

(***************************************************************************)
(* C23: when the computation of a statistic (get_stats, total_contributions)*)
(* is aborted by a failure of the API client (both transports failed), the *)
(* statistic is unset afterwards, and a call of its accessor made after    *)
(* the abort returns no zero or partial value: what it returns, if it      *)
(* returns, is the value of a computation that completed.                  *)
(***************************************************************************)
C23_AbortLeavesUnset ==
    /\ [](\A f \in Flows : \A acc \in {"stargazers", "total_contributions"} :
             Aborted(f, acc) /\ (acc = "stargazers" => h.gs = 1) => ~Cached(s, acc))
    /\ [][\A f \in Flows : \A acc \in {"stargazers", "total_contributions"} :
             Aborted(f, acc) /\ LaterCall(f, acc) =>
                 Returns(f, acc) = {Expected(cfg, acc)}]_vars

\* the later call alone: what it returns is a completed value
LaterCallIsComplete ==
    [][\A f \in Flows : \A acc \in {"stargazers", "total_contributions"} :
          Aborted(f, acc) /\ LaterCall(f, acc) =>
              Returns(f, acc) = {Expected(cfg, acc)}]_vars

\* the flows inside a call of the API client
Calling == In("query") \cup In("query_rest")

\* the flows at an `async with self.semaphore` with no slot yet: those of a
\* first request, of a further attempt and of a fallback
Asking ==
    { f \in Calling :
        \/ Top(f).pc = "fallback"
        \/ /\ Top(f).pc = "entry"
           /\ IF Top(f).fn = "query_rest" THEN Top(f).i < Attempts ELSE TRUE }

(***************************************************************************)
(* C24: the semaphore never deadlocks.  For every max_connections >= 1,    *)
(* one included, and whatever requests fail: a request that failed has     *)
(* released its slot when its fallback asks for one (the slots that are    *)
(* free are all those not held by a request under way); a call of query or *)
(* query_rest that asks for a slot goes on only by holding one, and it     *)
(* does go on: in the end no call is left waiting and every slot taken is  *)
(* free again, however the requests were left (returned, retried, raised). *)
(***************************************************************************)
C24_GateNeverDeadlocks ==
    /\ [](\A f \in Asking : sem = cfg.max_connections - Cardinality(Holders \ {f}))
    /\ [][\A f \in Asking : tasks'[1][f] # tasks[1][f] => (f \in Holders)']_vars
    /\ <>[](sem = cfg.max_connections /\ Calling = {})

\* one connection: the request of flow 1 failed and its fallback holds the
\* slot while flow 2 waits for it with nothing sent
C24_Witness ==
    /\ cfg.max_connections = 1
    /\ sem = 0
    /\ Calling = {1, 2}
    /\ Top(1).pc \in {"fb_post", "fb_get", "fb_sleep"}
    /\ Len(Top(1).sent) >= 2
    /\ wait[2] = "sem"
====
